---- MODULE Spec2Model ----
(***************************************************************************)
(* A model of semaphoreui_client/client.py: the SemaphoreUIClient and the  *)
(* records it returns.  The client is synchronous and keeps no state of    *)
(* its own between calls beyond its endpoint and its HTTP session, so the  *)
(* state of the model is the call in progress: which operation was called  *)
(* with which arguments, the requests it sent (in order), the responses    *)
(* the server gave (in order), and how the call ended.  The server is the  *)
(* environment: every response is drawn from a small set of status codes   *)
(* and bodies.  Beside the call in progress the state holds the record the *)
(* caller has kept from an earlier call, with its fields as they are now   *)
(* and as they were when the client built it.                              *)
(***************************************************************************)
EXTENDS Integers, Sequences, FiniteSets, TLC

VARIABLES pc, op, args, reqs, resps, outcome, result, receiver, held

vars == <<pc, op, args, reqs, resps, outcome, result, receiver, held>>

-----------------------------------------------------------------------------
(* Bounds and input domains *)

\* Largest id the server assigns to a record.
MaxId == 2

\* Longest sequence the server returns from a listing.
MaxList == 2

\* Python's None for an Optional argument: an Optional value is a sequence of
\* length 0 (None) or 1 (the value).
None == <<>>

Some(v) == <<v>>

Ids == 1..MaxId

ProjectIds == {1, 2}

Names == {"a", "b"}

\* The key types a caller may pass: the two the client knows and one it does not.
KeyTypes == {"ssh", "login_password", "bogus"}

\* The arguments of create_project_template after project_id and name.
TemplateArgs ==
    [repository_id |-> 1, inventory_id |-> 1, environment_id |-> 1,
     view_id |-> 1, vault_id |-> 1, playbook |-> "site.yml", arguments |-> "[]",
     description |-> "", allow_override_args_in_task |-> FALSE, limit |-> 0,
     suppress_success_alerts |-> FALSE, app |-> "ansible",
     git_branch |-> "main", survey_vars |-> <<>>, type |-> "",
     start_version |-> "", autorun |-> FALSE, build_template_id |-> None]

\* User objects a caller may pass (user_id, role).
Users == {[user_id |-> i, role |-> "owner"] : i \in Ids}

\* Status codes the server may answer with.
Statuses == {200, 201, 204, 404, 500}

-----------------------------------------------------------------------------
(* The client object *)

\* self.api_endpoint = f"{host}{path}" with the default path.
api_endpoint == "http://host/api"

\* The client a record refers back to: the keyword argument client=self.
client == [client |-> "self"]

\* The keyword arguments the client adds to a task payload:
\* project_id=project_id, client=self.
TaskExtra(project_id) == [project_id |-> project_id] @@ client

\* No keyword argument beside the response's own (a class without a client).
NoExtra == [x \in {} |-> ""]

\* What an f-string makes of Python's builtin function id.
builtin_id == "<built-in function id>"

-----------------------------------------------------------------------------
(* The dataclasses: the field names each constructor requires *)

Integration == {"id", "name", "project_id", "template_id", "client"}

Token == {"id", "created", "expired", "user_id", "client"}

Project == {"id", "name", "created", "alert", "alert_chat",
            "max_parallel_tasks", "type", "client"}

Permissions == {"role", "permissions"}

ProjectBackup == {}

Event == {"project_id", "user_id", "object_id", "object_type", "description"}

User == {"user_id", "role"}

Key == {"id", "name", "type", "project_id", "string", "override_secret",
        "login_password", "ssh", "client"}

Repository == {"id", "name", "project_id", "git_url", "git_branch",
               "ssh_key_id", "client"}

Environment == {"id", "name", "project_id", "password", "json", "env",
                "secrets", "client"}

View == {"id", "title", "position", "project_id", "client"}

Inventory == {"id", "name", "project_id", "inventory", "ssh_key_id",
              "become_key_id", "type", "holder_id", "repository_id", "client"}

Template == {"id", "project_id", "repository_id", "inventory_id",
             "environment_id", "view_id", "name", "playbook", "arguments",
             "description", "allow_override_args_in_task",
             "suppress_success_alerts", "app", "survey_vars", "type",
             "start_version", "build_template_id", "autorun", "vault_key_id",
             "last_task", "tasks", "client"}

Schedule == {"id", "cron_format", "project_id", "template_id",
             "repository_id", "name", "active", "client"}

Task == {"id", "template_id", "status", "debug", "playbook", "environment",
         "secret", "limit", "git_branch", "message", "project_id", "client"}

TaskOutput == {"task_id", "time", "output"}

-----------------------------------------------------------------------------
(* The server's side: JSON bodies and responses *)

\* The value the server puts in field f of an object with id i, name n and
\* parent project p.  Fields the operations never read carry a filler.
JsonField(f, i, n, p) ==
    CASE f \in {"id", "task_id", "user_id"} -> i
      [] f \in {"name", "title"} -> n
      [] f = "project_id" -> p
      [] f = "git_branch" -> "branch" \o ToString(i)
      [] f = "login_password" -> [login |-> "", password |-> ""]
      [] f = "ssh" -> [login |-> "", passphrase |-> "", private_key |-> ""]
      [] f \in {"template_id", "repository_id", "inventory_id",
                "environment_id", "view_id", "ssh_key_id", "become_key_id",
                "holder_id", "vault_key_id", "build_template_id", "last_task",
                "tasks", "position", "max_parallel_tasks", "permissions"} -> 1
      [] f \in {"alert", "expired", "override_secret", "active", "debug",
                "autorun", "allow_override_args_in_task",
                "suppress_success_alerts"} -> FALSE
      [] f \in {"secrets", "survey_vars"} -> <<>>
      [] OTHER -> ""

\* A JSON object with exactly the given keys.
JsonObject(keys, i, n, p) == [f \in keys |-> JsonField(f, i, n, p)]

\* The objects the server may send for a class whose constructor takes the
\* keyword arguments `extra` from the client: every well-formed object, one
\* that lacks a key, and one that carries every field of the class but client
\* (for a Task, a payload that carries a project_id of its own).
JsonObjects(cls, extra) ==
    LET keys == cls \ DOMAIN extra
    IN  {JsonObject(keys, i, n, p) : i \in Ids, n \in Names, p \in ProjectIds}
            \cup {JsonObject(keys \ {"id", "user_id", "task_id", "role"}, 1, "a", 1),
                  JsonObject(cls \ {"client"}, 1, "a", 1)}

\* The well-formed objects of a class that belong to project p.
JsonItems(cls, extra, p) ==
    {JsonObject(cls \ DOMAIN extra, i, n, p) : i \in Ids, n \in Names}

SeqsUpTo(S, n) == UNION {[1..k -> S] : k \in 0..n}

\* A response body: unparsable/empty text, a JSON object, or a JSON array.
EmptyBody == [kind |-> "empty", items |-> <<>>]

ObjectBody(o) == [kind |-> "object", items |-> <<o>>]

ArrayBody(s) == [kind |-> "array", items |-> s]

Responses(bodies) == {[status_code |-> s, body |-> b] : s \in Statuses, b \in bodies}

\* Responses to a request whose body the client never reads.
BareResponses == Responses({EmptyBody})

\* Responses to a request for one object of a class.
ObjectResponses(cls, extra) ==
    Responses({EmptyBody, ArrayBody(<<>>)}
                  \cup {ObjectBody(o) : o \in JsonObjects(cls, extra)})

\* Responses to a request for the listing of a class in project p: every
\* sequence of up to MaxList objects of that project, a single object of any
\* project, an array with an object that lacks a key, and bodies that are no
\* array at all.
ListResponses(cls, extra, p) ==
    Responses({EmptyBody, ObjectBody(<<>>)}
                  \cup {ObjectBody(o) : o \in JsonItems(cls, extra, p)}
                  \cup {ArrayBody(<<o>>) : o \in JsonObjects(cls, extra)}
                  \cup {ArrayBody(s) : s \in SeqsUpTo(JsonItems(cls, extra, p), MaxList)})

-----------------------------------------------------------------------------
(* Python and requests primitives *)

Request(method, url, json) == [method |-> method, url |-> url, json |-> json]

\* A request sent without a json= argument.
NoJson == [nojson |-> TRUE]

\* How a piece of code ends: it returns a value or raises.
Returns(kind, items) == [outcome |-> "ok", kind |-> kind, items |-> items]

Raises(exc) == [outcome |-> exc, kind |-> "none", items |-> <<>>]

ReturnsNone == Returns("none", <<>>)

\* Cls(**data, **extra): a dataclass constructor takes exactly its fields.
Accepts(cls, data, extra) ==
    /\ DOMAIN data \cap DOMAIN extra = {}
    /\ DOMAIN data \cup DOMAIN extra = cls

\* Cls(**response.json(), **extra)
FromJson(cls, response, extra) ==
    IF response.body.kind = "empty" THEN Raises("ValueError")
    ELSE IF response.body.kind # "object" THEN Raises("TypeError")
    ELSE LET data == response.body.items[1]
         IN  IF Accepts(cls, data, extra)
             THEN Returns("record", <<data @@ extra>>)
             ELSE Raises("TypeError")


\* The list of records, were each record put in front of the ones built
\* before it: the server's order reversed.
ListFromJsonReversed(cls, response, extra) ==
    LET items == response.body.items
    IN  IF response.body.kind = "empty" THEN Raises("ValueError")
        ELSE IF response.body.kind = "object"
             THEN IF DOMAIN items[1] = {} THEN Returns("list", <<>>)
                  ELSE Raises("TypeError")
        ELSE IF \A k \in 1..Len(items) : Accepts(cls, items[k], extra)
             THEN Returns("list", [k \in 1..Len(items) |->
                                       items[Len(items) + 1 - k] @@ extra])
             ELSE Raises("TypeError")

\* [Cls(**data, **extra) for data in response.json()]
ListFromJson(cls, response, extra) ==
    LET items == response.body.items
    IN  IF response.body.kind = "empty" THEN Raises("ValueError")
        ELSE IF response.body.kind = "object"
             THEN IF DOMAIN items[1] = {} THEN Returns("list", <<>>)
                  ELSE Raises("TypeError")
        ELSE IF \A k \in 1..Len(items) : Accepts(cls, items[k], extra)
             THEN Returns("list", [k \in 1..Len(items) |-> items[k] @@ extra])
             ELSE Raises("TypeError")

\* assert response.status_code == expected, then the rest of the method.
AssertStatus(response, expected, rest) ==
    IF response.status_code \in expected THEN rest ELSE Raises("AssertionError")

\* One request and one response, and how the method ended.
Exchange(request, response, end) ==
    [reqs |-> <<request>>, resps |-> <<response>>, end |-> end]

\* A method that ended before it sent any request.
NoExchange(end) == [reqs |-> <<>>, resps |-> <<>>, end |-> end]

\* A first exchange, then a second, and how the method ended after both.
Then(first, second, end) ==
    [reqs |-> first.reqs \o second.reqs, resps |-> first.resps \o second.resps,
     end |-> end]


\* The handler, were it written `except (ValueError, TypeError)`: a body that
\* parses but is no object of the class would be answered by a listing too.
CaughtTypeErrorToo(posted, response, expected) ==
    response.status_code \in expected
        /\ posted.end.outcome \in {"ValueError", "TypeError"}

\* The handler, were the assert inside the try block and the handler a bare
\* `except`: a rejected status would be answered by a listing.
CaughtAnyError(posted, response, expected) == posted.end.outcome # "ok"

\* try: return Cls(**response.json(), client=self) / except ValueError: the
\* handler runs when the try block raised ValueError.  The assert on the status
\* code stands before the try block, so its AssertionError is not caught.
Caught(posted, response, expected) ==
    response.status_code \in expected /\ posted.end.outcome = "ValueError"


\* The fallback of the create methods, were it to take the first record of the
\* listing whatever its name.
FirstListed(listed, name) ==
    IF listed.outcome # "ok" THEN listed
    ELSE IF Len(listed.items) = 0 THEN Raises("IndexError")
    ELSE Returns("record", <<listed.items[1]>>)


\* The fallback of the create methods, were it to take the last of the records
\* with the name: with the records listed oldest first, the one just created.
LastNamed(listed, name) ==
    IF listed.outcome # "ok" THEN listed
    ELSE LET matching == SelectSeq(listed.items, LAMBDA x : x.name = name)
         IN  IF Len(matching) = 0 THEN Raises("IndexError")
             ELSE Returns("record", <<matching[Len(matching)]>>)

\* The fallback of the create methods, were it to return None when no record
\* of the listing carries the name.
FirstNamedOrNone(listed, name) ==
    IF listed.outcome # "ok" THEN listed
    ELSE LET matching == SelectSeq(listed.items, LAMBDA x : x.name = name)
         IN  IF Len(matching) = 0 THEN ReturnsNone
             ELSE Returns("record", <<matching[1]>>)

\* [x for x in <listing> if x.name == name][0], where the listing itself may
\* have raised.
FirstNamed(listed, name) ==
    IF listed.outcome # "ok" THEN listed
    ELSE LET matching == SelectSeq(listed.items, LAMBDA x : x.name = name)
         IN  IF Len(matching) = 0 THEN Raises("IndexError")
             ELSE Returns("record", <<matching[1]>>)

\* The call of a public method runs to its end.
Call(name, a, x) ==
    /\ pc = "idle"
    /\ pc' = "done"
    /\ op' = name
    /\ args' = a
    /\ reqs' = x.reqs
    /\ resps' = x.resps
    /\ outcome' = x.end.outcome
    /\ result' = [kind |-> x.end.kind, items |-> x.end.items]

\* A method called on the client itself, not through a record.
NoReceiver == [cls |-> "none", method |-> "", fields |-> <<>>]

\* The caller holds no record.
NoRecord == [cls |-> "none", fields |-> <<>>, built |-> <<>>, origin |-> <<>>]

Direct(A) == pc = "idle" /\ A /\ receiver' = NoReceiver /\ held' = held

\* A method called on a record the caller holds.
On(cls, method, self, A) ==
    /\ pc = "idle"
    /\ A
    /\ receiver' = [cls |-> cls, method |-> method, fields |-> self]
    /\ held' = held

\* The records of a class the client can have returned to the caller.
Records(cls, extra) ==
    {JsonObject(cls \ DOMAIN extra, i, n, p) @@ extra
         : i \in Ids, n \in Names, p \in ProjectIds}

\* Those of a set of records that carry the given name.
Named(records, name) == {r \in records : r.name = name}

\* The tasks the client can have returned: each carries the project it was
\* asked of.
TaskRecords ==
    UNION {{JsonObject(Task \ DOMAIN TaskExtra(p), i, n, p) @@ TaskExtra(p)
                : i \in Ids, n \in Names} : p \in ProjectIds}

-----------------------------------------------------------------------------
(* SemaphoreUIClient: authentication and tokens *)


\* login, were it to take any 200 or 204 for a successful login.
login_accepts_200(user, password) ==
    \E response \in BareResponses :
        Call("login", [user |-> user, password |-> password],
             Exchange(Request("POST", api_endpoint \o "/auth/login",
                              [auth |-> user, password |-> password]),
                      response,
                      IF response.status_code \notin {200, 204}
                      THEN Raises("ValueError") ELSE ReturnsNone))

login(user, password) ==
    \E response \in BareResponses :
        Call("login", [user |-> user, password |-> password],
             Exchange(Request("POST", api_endpoint \o "/auth/login",
                              [auth |-> user, password |-> password]),
                      response,
                      IF response.status_code # 204
                      THEN Raises("ValueError") ELSE ReturnsNone))

whoami ==
    \E response \in BareResponses :
        Call("whoami", <<>>,
             Exchange(Request("GET", api_endpoint \o "/auth/login", NoJson),
                      response, AssertStatus(response, {200}, ReturnsNone)))

logout ==
    \E response \in BareResponses :
        Call("logout", <<>>,
             Exchange(Request("POST", api_endpoint \o "/auth/logout", NoJson),
                      response, AssertStatus(response, {204}, ReturnsNone)))

tokens ==
    \E response \in ListResponses(Token, client, 1) :
        Call("tokens", <<>>,
             Exchange(Request("GET", api_endpoint \o "/user/tokens", NoJson),
                      response,
                      AssertStatus(response, {200},
                                   ListFromJson(Token, response, client))))

create_token ==
    \E response \in ObjectResponses(Token, client) :
        Call("create_token", <<>>,
             Exchange(Request("POST", api_endpoint \o "/user/tokens", NoJson),
                      response,
                      AssertStatus(response, {201},
                                   FromJson(Token, response, client))))

delete_token(id) ==
    \E response \in BareResponses :
        Call("delete_token", [id |-> id],
             Exchange(Request("DELETE",
                              api_endpoint \o "/user/tokens/" \o ToString(id),
                              NoJson),
                      response, AssertStatus(response, {204, 404}, ReturnsNone)))

-----------------------------------------------------------------------------
(* SemaphoreUIClient: projects *)

projects ==
    \E response \in ListResponses(Project, client, 1) :
        Call("projects", <<>>,
             Exchange(Request("GET", api_endpoint \o "/projects", NoJson),
                      response,
                      AssertStatus(response, {200},
                                   ListFromJson(Project, response, client))))


\* get_project, were it to build the record from whatever the server sent
\* without a look at the status code.
get_project_whatever_the_status(id) ==
    \E response \in ObjectResponses(Project, client) :
        Call("get_project", [id |-> id],
             Exchange(Request("GET", api_endpoint \o "/project/" \o ToString(id),
                              NoJson),
                      response, FromJson(Project, response, client)))

get_project(id) ==
    \E response \in ObjectResponses(Project, client) :
        Call("get_project", [id |-> id],
             Exchange(Request("GET", api_endpoint \o "/project/" \o ToString(id),
                              NoJson),
                      response,
                      AssertStatus(response, {200},
                                   FromJson(Project, response, client))))

create_project(name, alert, alert_chat, max_parallel_tasks, type, demo) ==
    \E response \in ObjectResponses(Project, client) :
        Call("create_project",
             [name |-> name, alert |-> alert, alert_chat |-> alert_chat,
              max_parallel_tasks |-> max_parallel_tasks, type |-> type,
              demo |-> demo],
             Exchange(Request("POST", api_endpoint \o "/projects",
                              [name |-> name, alert |-> alert,
                               alert_chat |-> alert_chat,
                               max_parallel_tasks |-> max_parallel_tasks,
                               type |-> type, demo |-> demo]),
                      response,
                      AssertStatus(response, {201},
                                   FromJson(Project, response, client))))

delete_project(id) ==
    \E response \in BareResponses :
        Call("delete_project", [id |-> id],
             Exchange(Request("DELETE",
                              api_endpoint \o "/project/" \o ToString(id), NoJson),
                      response, AssertStatus(response, {204}, ReturnsNone)))

update_project(id, name, alert, alert_chat, max_parallel_tasks, type) ==
    \E response \in BareResponses :
        Call("update_project",
             [id |-> id, name |-> name, alert |-> alert,
              alert_chat |-> alert_chat,
              max_parallel_tasks |-> max_parallel_tasks, type |-> type],
             Exchange(Request("PUT", api_endpoint \o "/project/" \o ToString(id),
                              [name |-> name, alert |-> alert,
                               alert_chat |-> alert_chat,
                               max_parallel_tasks |-> max_parallel_tasks,
                               type |-> type]),
                      response, AssertStatus(response, {204}, ReturnsNone)))

backup_project(id) ==
    \E response \in ObjectResponses(ProjectBackup, NoExtra) :
        Call("backup_project", [id |-> id],
             Exchange(Request("GET",
                              api_endpoint \o "/project/" \o ToString(id)
                                  \o "/backup", NoJson),
                      response,
                      AssertStatus(response, {200},
                                   FromJson(ProjectBackup, response, NoExtra))))

get_project_role(id) ==
    \E response \in ObjectResponses(Permissions, NoExtra) :
        Call("get_project_role", [id |-> id],
             Exchange(Request("GET",
                              api_endpoint \o "/project/" \o ToString(id)
                                  \o "/role", NoJson),
                      response,
                      AssertStatus(response, {200},
                                   FromJson(Permissions, response, NoExtra))))

get_project_events(id) ==
    \E response \in ListResponses(Event, NoExtra, id) :
        Call("get_project_events", [id |-> id],
             Exchange(Request("GET",
                              api_endpoint \o "/project/" \o ToString(id)
                                  \o "/events", NoJson),
                      response,
                      AssertStatus(response, {200},
                                   ListFromJson(Event, response, NoExtra))))

get_project_users(id, sort, order) ==
    \E response \in ListResponses(User, NoExtra, id) :
        Call("get_project_users", [id |-> id, sort |-> sort, order |-> order],
             Exchange(Request("GET",
                              api_endpoint \o "/project/" \o ToString(id) \o "/",
                              NoJson),
                      response,
                      AssertStatus(response, {200},
                                   ListFromJson(User, response, NoExtra))))

add_project_user(id, user) ==
    \E response \in BareResponses :
        Call("add_project_user", [id |-> id, user |-> user],
             Exchange(Request("POST",
                              api_endpoint \o "/project/" \o ToString(id)
                                  \o "/users", user),
                      response, AssertStatus(response, {204}, ReturnsNone)))

update_project_user(id, user) ==
    \E response \in BareResponses :
        Call("update_project_user", [id |-> id, user |-> user],
             Exchange(Request("PUT",
                              api_endpoint \o "/project/" \o ToString(id)
                                  \o "/users/" \o ToString(user.user_id), user),
                      response, AssertStatus(response, {204}, ReturnsNone)))

remove_project_user(id, user_id) ==
    \E response \in BareResponses :
        Call("remove_project_user", [id |-> id, user_id |-> user_id],
             Exchange(Request("DELETE",
                              api_endpoint \o "/project/" \o ToString(id)
                                  \o "/users/" \o ToString(user_id), NoJson),
                      response, AssertStatus(response, {204}, ReturnsNone)))

-----------------------------------------------------------------------------
(* SemaphoreUIClient: integrations *)

get_project_integrations(id) ==
    \E response \in ListResponses(Integration, client, id) :
        Call("get_project_integrations", [id |-> id],
             Exchange(Request("GET",
                              api_endpoint \o "/project/" \o ToString(id)
                                  \o "/integrations", NoJson),
                      response,
                      AssertStatus(response, {200},
                                   ListFromJson(Integration, response, client))))

\* The f-string names `id`, which is no parameter of the method: it formats
\* Python's builtin function id.
create_project_integrations(project_id, name, template_id) ==
    \E response \in ObjectResponses(Integration, client) :
        Call("create_project_integrations",
             [project_id |-> project_id, name |-> name,
              template_id |-> template_id],
             Exchange(Request("POST",
                              api_endpoint \o "/project/" \o builtin_id
                                  \o "integrations",
                              [project_id |-> project_id, name |-> name,
                               template_id |-> template_id]),
                      response,
                      AssertStatus(response, {200},
                                   FromJson(Integration, response, client))))

update_project_integration(project_id, id, name, template_id) ==
    \E response \in BareResponses :
        Call("update_project_integration",
             [project_id |-> project_id, id |-> id, name |-> name,
              template_id |-> template_id],
             Exchange(Request("PUT",
                              api_endpoint \o "/project/" \o ToString(project_id)
                                  \o "/integrations/" \o ToString(id),
                              [project_id |-> project_id, name |-> name,
                               template_id |-> template_id]),
                      response, AssertStatus(response, {204}, ReturnsNone)))

delete_project_integration(project_id, id) ==
    \E response \in BareResponses :
        Call("delete_project_integration", [project_id |-> project_id, id |-> id],
             Exchange(Request("DELETE",
                              api_endpoint \o "/project/" \o ToString(project_id)
                                  \o "/integrations/" \o ToString(id), NoJson),
                      response, AssertStatus(response, {204}, ReturnsNone)))

-----------------------------------------------------------------------------
(* SemaphoreUIClient: keys *)

\* The body of get_project_keys, given the server's response.
get_project_keys_exchange(project_id, response) ==
    Exchange(Request("GET",
                     api_endpoint \o "/project/" \o ToString(project_id)
                         \o "/keys", NoJson),
             response,
             AssertStatus(response, {200}, ListFromJson(Key, response, client)))

get_project_keys(project_id, key_type, sort, order) ==
    \E response \in ListResponses(Key, client, project_id) :
        Call("get_project_keys",
             [project_id |-> project_id, key_type |-> key_type, sort |-> sort,
              order |-> order],
             get_project_keys_exchange(project_id, response))


\* The checks of create_project_key without the one of the key type itself:
\* an unknown key type is taken for login_password.
create_project_key_rejects_missing_only(key_type, login_password, ssh) ==
    \/ key_type = "ssh" /\ ssh = None
    \/ key_type # "ssh" /\ login_password = None

\* The checks create_project_key makes of its arguments before it builds the
\* payload: each raises ValueError.
create_project_key_rejects(key_type, login_password, ssh) ==
    \/ key_type \notin {"ssh", "login_password"}
    \/ key_type = "ssh" /\ ssh = None
    \/ key_type = "login_password" /\ login_password = None


\* json_data, were the sub-object of the other key type filled from its tuple
\* whenever the caller supplied one.
create_project_key_json_data_keeps_both(project_id, name, key_type, override_secret, login_password, ssh) ==
    IF key_type = "ssh"
    THEN [id |-> 0, project_id |-> project_id, name |-> name,
          type |-> key_type, override_secret |-> override_secret,
          login_password |->
              IF login_password = None THEN [login |-> "", password |-> ""]
              ELSE [login |-> login_password[1][1],
                    password |-> login_password[1][2]],
          ssh |-> [login |-> ssh[1][1], passphrase |-> ssh[1][2],
                   private_key |-> ssh[1][3]]]
    ELSE [id |-> 0, project_id |-> project_id, name |-> name,
          type |-> key_type, override_secret |-> override_secret,
          login_password |-> [login |-> login_password[1][1],
                              password |-> login_password[1][2]],
          ssh |-> IF ssh = None
                  THEN [login |-> "", passphrase |-> "", private_key |-> ""]
                  ELSE [login |-> ssh[1][1], passphrase |-> ssh[1][2],
                        private_key |-> ssh[1][3]]]

\* json_data, for arguments that passed the checks.
create_project_key_json_data(project_id, name, key_type, override_secret, login_password, ssh) ==
    IF key_type = "ssh"
    THEN [id |-> 0, project_id |-> project_id, name |-> name,
          type |-> key_type, override_secret |-> override_secret,
          login_password |-> [login |-> "", password |-> ""],
          ssh |-> [login |-> ssh[1][1], passphrase |-> ssh[1][2],
                   private_key |-> ssh[1][3]]]
    ELSE [id |-> 0, project_id |-> project_id, name |-> name,
          type |-> key_type, override_secret |-> override_secret,
          login_password |-> [login |-> login_password[1][1],
                              password |-> login_password[1][2]],
          ssh |-> [login |-> "", passphrase |-> "", private_key |-> ""]]

create_project_key(project_id, name, key_type, override_secret, login_password, ssh) ==
    LET a == [project_id |-> project_id, name |-> name, key_type |-> key_type,
              override_secret |-> override_secret,
              login_password |-> login_password, ssh |-> ssh]
        post == Request("POST",
                        api_endpoint \o "/project/" \o ToString(project_id)
                            \o "/keys",
                        create_project_key_json_data(project_id, name, key_type,
                                                     override_secret,
                                                     login_password, ssh))
    IN  IF create_project_key_rejects(key_type, login_password, ssh)
        THEN Call("create_project_key", a, NoExchange(Raises("ValueError")))
        ELSE \E response \in ObjectResponses(Key, client) :
                 LET posted == Exchange(post, response,
                                        AssertStatus(response, {204},
                                                     FromJson(Key, response, client)))
                 IN  IF Caught(posted, response, {204})
                     THEN \E listing \in ListResponses(Key, client, project_id) :
                              LET listed == get_project_keys_exchange(project_id, listing)
                              IN  Call("create_project_key", a,
                                       Then(posted, listed, FirstNamed(listed.end, name)))
                     ELSE Call("create_project_key", a, posted)


\* delete_project_key, were it to take a 404 as delete_token does.
delete_project_key_accepts_404(project_id, id) ==
    \E response \in BareResponses :
        Call("delete_project_key", [project_id |-> project_id, id |-> id],
             Exchange(Request("DELETE",
                              api_endpoint \o "/project/" \o ToString(project_id)
                                  \o "/keys/" \o ToString(id), NoJson),
                      response, AssertStatus(response, {204, 404}, ReturnsNone)))

delete_project_key(project_id, id) ==
    \E response \in BareResponses :
        Call("delete_project_key", [project_id |-> project_id, id |-> id],
             Exchange(Request("DELETE",
                              api_endpoint \o "/project/" \o ToString(project_id)
                                  \o "/keys/" \o ToString(id), NoJson),
                      response, AssertStatus(response, {204}, ReturnsNone)))

-----------------------------------------------------------------------------
(* SemaphoreUIClient: repositories *)

\* The body of get_project_repositories, given the server's response.
get_project_repositories_exchange(project_id, response) ==
    Exchange(Request("GET",
                     api_endpoint \o "/project/" \o ToString(project_id)
                         \o "/repositories", NoJson),
             response,
             AssertStatus(response, {200},
                          ListFromJson(Repository, response, client)))

get_project_repositories(project_id) ==
    \E response \in ListResponses(Repository, client, project_id) :
        Call("get_project_repositories", [project_id |-> project_id],
             get_project_repositories_exchange(project_id, response))

create_project_repository(project_id, name, git_url, git_branch, ssh_key_id) ==
    LET a == [project_id |-> project_id, name |-> name, git_url |-> git_url,
              git_branch |-> git_branch, ssh_key_id |-> ssh_key_id]
        post == Request("POST",
                        api_endpoint \o "/project/" \o ToString(project_id)
                            \o "/repositories",
                        [name |-> name, project_id |-> project_id,
                         git_url |-> git_url, git_branch |-> git_branch,
                         ssh_key_id |-> ssh_key_id])
    IN  \E response \in ObjectResponses(Repository, client) :
            LET posted == Exchange(post, response,
                                   AssertStatus(response, {204},
                                                FromJson(Repository, response, client)))
            IN  IF Caught(posted, response, {204})
                THEN \E listing \in ListResponses(Repository, client, project_id) :
                         LET listed == get_project_repositories_exchange(project_id, listing)
                         IN  Call("create_project_repository", a,
                                  Then(posted, listed, FirstNamed(listed.end, name)))
                ELSE Call("create_project_repository", a, posted)

delete_project_repository(project_id, id) ==
    \E response \in BareResponses :
        Call("delete_project_repository", [project_id |-> project_id, id |-> id],
             Exchange(Request("DELETE",
                              api_endpoint \o "/project/" \o ToString(project_id)
                                  \o "/repositories/" \o ToString(id), NoJson),
                      response, AssertStatus(response, {204}, ReturnsNone)))

-----------------------------------------------------------------------------
(* SemaphoreUIClient: environments *)

\* The body of get_project_environments, given the server's response.
get_project_environments_exchange(project_id, response) ==
    Exchange(Request("GET",
                     api_endpoint \o "/project/" \o ToString(project_id)
                         \o "/environment", NoJson),
             response,
             AssertStatus(response, {200},
                          ListFromJson(Environment, response, client)))

get_project_environments(project_id) ==
    \E response \in ListResponses(Environment, client, project_id) :
        Call("get_project_environments", [project_id |-> project_id],
             get_project_environments_exchange(project_id, response))

\* The payload's password is None whatever the caller passed.
create_project_environment(project_id, name, password, json, env, secrets) ==
    LET a == [project_id |-> project_id, name |-> name, password |-> password,
              json |-> json, env |-> env, secrets |-> secrets]
        post == Request("POST",
                        api_endpoint \o "/project/" \o ToString(project_id)
                            \o "/environment",
                        [name |-> name, project_id |-> project_id,
                         password |-> None, json |-> json, env |-> env,
                         secrets |-> secrets])
    IN  \E response \in ObjectResponses(Environment, client) :
            LET posted == Exchange(post, response,
                                   AssertStatus(response, {204},
                                                FromJson(Environment, response, client)))
            IN  IF Caught(posted, response, {204})
                THEN \E listing \in ListResponses(Environment, client, project_id) :
                         LET listed == get_project_environments_exchange(project_id, listing)
                         IN  Call("create_project_environment", a,
                                  Then(posted, listed, FirstNamed(listed.end, name)))
                ELSE Call("create_project_environment", a, posted)

delete_project_environment(project_id, id) ==
    \E response \in BareResponses :
        Call("delete_project_environment", [project_id |-> project_id, id |-> id],
             Exchange(Request("DELETE",
                              api_endpoint \o "/project/" \o ToString(project_id)
                                  \o "/environment/" \o ToString(id), NoJson),
                      response, AssertStatus(response, {204}, ReturnsNone)))

-----------------------------------------------------------------------------
(* SemaphoreUIClient: views *)

get_project_views(project_id) ==
    \E response \in ListResponses(View, client, project_id) :
        Call("get_project_views", [project_id |-> project_id],
             Exchange(Request("GET",
                              api_endpoint \o "/project/" \o ToString(project_id)
                                  \o "/views", NoJson),
                      response,
                      AssertStatus(response, {200},
                                   ListFromJson(View, response, client))))

create_project_view(project_id, title, position) ==
    \E response \in ObjectResponses(View, client) :
        Call("create_project_view",
             [project_id |-> project_id, title |-> title, position |-> position],
             Exchange(Request("POST",
                              api_endpoint \o "/project/" \o ToString(project_id)
                                  \o "/views",
                              [position |-> position, title |-> title,
                               project_id |-> project_id]),
                      response,
                      AssertStatus(response, {201},
                                   FromJson(View, response, client))))

delete_project_view(project_id, id) ==
    \E response \in BareResponses :
        Call("delete_project_view", [project_id |-> project_id, id |-> id],
             Exchange(Request("DELETE",
                              api_endpoint \o "/project/" \o ToString(project_id)
                                  \o "/views/" \o ToString(id), NoJson),
                      response, AssertStatus(response, {204}, ReturnsNone)))

-----------------------------------------------------------------------------
(* SemaphoreUIClient: inventories *)

get_project_inventories(project_id) ==
    \E response \in ListResponses(Inventory, client, project_id) :
        Call("get_project_inventories", [project_id |-> project_id],
             Exchange(Request("GET",
                              api_endpoint \o "/project/" \o ToString(project_id)
                                  \o "/inventory", NoJson),
                      response,
                      AssertStatus(response, {200},
                                   ListFromJson(Inventory, response, client))))

create_project_inventory(project_id, name, inventory, ssh_key_id, become_key_id, type, repostory_id) ==
    \E response \in ObjectResponses(Inventory, client) :
        Call("create_project_inventory",
             [project_id |-> project_id, name |-> name, inventory |-> inventory,
              ssh_key_id |-> ssh_key_id, become_key_id |-> become_key_id,
              type |-> type, repostory_id |-> repostory_id],
             Exchange(Request("POST",
                              api_endpoint \o "/project/" \o ToString(project_id)
                                  \o "/inventory",
                              [id |-> 0, name |-> name, project_id |-> project_id,
                               inventory |-> inventory, ssh_key_id |-> ssh_key_id,
                               become_key_id |-> become_key_id, type |-> type,
                               repository_id |-> repostory_id]),
                      response,
                      AssertStatus(response, {201},
                                   FromJson(Inventory, response, client))))

delete_project_inventory(project_id, id) ==
    \E response \in BareResponses :
        Call("delete_project_inventory", [project_id |-> project_id, id |-> id],
             Exchange(Request("DELETE",
                              api_endpoint \o "/project/" \o ToString(project_id)
                                  \o "/inventory/" \o ToString(id), NoJson),
                      response, AssertStatus(response, {204}, ReturnsNone)))

-----------------------------------------------------------------------------
(* SemaphoreUIClient: templates *)

get_project_templates(project_id) ==
    \E response \in ListResponses(Template, client, project_id) :
        Call("get_project_templates", [project_id |-> project_id],
             Exchange(Request("GET",
                              api_endpoint \o "/project/" \o ToString(project_id)
                                  \o "/templates", NoJson),
                      response,
                      AssertStatus(response, {200},
                                   ListFromJson(Template, response, client))))

\* `t` stands for the method's arguments after project_id and name, by name:
\* repository_id, inventory_id, environment_id, view_id, vault_id, playbook,
\* arguments, description, allow_override_args_in_task, limit,
\* suppress_success_alerts, app, git_branch, survey_vars, type, start_version,
\* autorun, build_template_id.
create_project_template(project_id, name, t) ==
    \E response \in ObjectResponses(Template, client) :
        Call("create_project_template",
             [project_id |-> project_id, name |-> name] @@ t,
             Exchange(Request("POST",
                              api_endpoint \o "/project/" \o ToString(project_id)
                                  \o "/templates",
                              [id |-> 0, project_id |-> project_id,
                               inventory_id |-> t.inventory_id,
                               repository_id |-> t.repository_id,
                               environment_id |-> t.environment_id,
                               view_id |-> t.view_id,
                               vault_key_id |-> t.vault_id,
                               name |-> name,
                               playbook |-> t.playbook,
                               arguments |-> t.arguments,
                               description |-> t.description,
                               allow_override_args_in_task |->
                                   t.allow_override_args_in_task,
                               limit |-> t.limit,
                               suppress_success_alerts |->
                                   t.suppress_success_alerts,
                               app |-> t.app,
                               git_branch |-> t.git_branch,
                               survey_vars |-> t.survey_vars,
                               type |-> t.type,
                               start_version |-> t.start_version,
                               build_template_id |-> t.build_template_id,
                               autorun |-> t.autorun]),
                      response,
                      AssertStatus(response, {201},
                                   FromJson(Template, response, client))))

delete_project_template(project_id, id) ==
    \E response \in BareResponses :
        Call("delete_project_template", [project_id |-> project_id, id |-> id],
             Exchange(Request("DELETE",
                              api_endpoint \o "/project/" \o ToString(project_id)
                                  \o "/templates/" \o ToString(id), NoJson),
                      response, AssertStatus(response, {204}, ReturnsNone)))

-----------------------------------------------------------------------------
(* SemaphoreUIClient: schedules *)

get_project_schedules(project_id) ==
    \E response \in ListResponses(Schedule, client, project_id) :
        Call("get_project_schedules", [project_id |-> project_id],
             Exchange(Request("GET",
                              api_endpoint \o "/project/" \o ToString(project_id)
                                  \o "/schedules", NoJson),
                      response,
                      AssertStatus(response, {200},
                                   ListFromJson(Schedule, response, client))))

create_project_schedule(project_id, template_id, name, cron_format, active) ==
    \E response \in ObjectResponses(Schedule, client) :
        Call("create_project_schedule",
             [project_id |-> project_id, template_id |-> template_id,
              name |-> name, cron_format |-> cron_format, active |-> active],
             Exchange(Request("POST",
                              api_endpoint \o "/project/" \o ToString(project_id)
                                  \o "/schedules",
                              [id |-> 0, project_id |-> project_id,
                               template_id |-> template_id, name |-> name,
                               cron_format |-> cron_format, active |-> active]),
                      response,
                      AssertStatus(response, {201},
                                   FromJson(Schedule, response, client))))

\* A POST to the collection, as in create_project_schedule, with the
\* schedule's id in the payload; 201 is the status it asserts.
update_project_schedule(project_id, schedule_id, template_id, name, cron_format, active) ==
    \E response \in BareResponses :
        Call("update_project_schedule",
             [project_id |-> project_id, schedule_id |-> schedule_id,
              template_id |-> template_id, name |-> name,
              cron_format |-> cron_format, active |-> active],
             Exchange(Request("POST",
                              api_endpoint \o "/project/" \o ToString(project_id)
                                  \o "/schedules",
                              [id |-> schedule_id, project_id |-> project_id,
                               template_id |-> template_id, name |-> name,
                               cron_format |-> cron_format, active |-> active]),
                      response, AssertStatus(response, {201}, ReturnsNone)))

delete_project_schedule(project_id, schedule_id) ==
    \E response \in BareResponses :
        Call("delete_project_schedule", [project_id |-> project_id, schedule_id |-> schedule_id],
             Exchange(Request("DELETE",
                              api_endpoint \o "/project/" \o ToString(project_id)
                                  \o "/schedules/" \o ToString(schedule_id), NoJson),
                      response, AssertStatus(response, {204}, ReturnsNone)))

-----------------------------------------------------------------------------
(* SemaphoreUIClient: tasks *)


\* get_project_tasks, were a Task built as the other records are: from the
\* payload alone, with the project id the server put in it.
get_project_tasks_from_payload_alone(project_id) ==
    \E response \in ListResponses(Task, client, project_id) :
        Call("get_project_tasks", [project_id |-> project_id],
             Exchange(Request("GET",
                              api_endpoint \o "/project/" \o ToString(project_id)
                                  \o "/tasks", NoJson),
                      response,
                      AssertStatus(response, {200},
                                   ListFromJson(Task, response, client))))

get_project_tasks(project_id) ==
    \E response \in ListResponses(Task, TaskExtra(project_id), project_id) :
        Call("get_project_tasks", [project_id |-> project_id],
             Exchange(Request("GET",
                              api_endpoint \o "/project/" \o ToString(project_id)
                                  \o "/tasks", NoJson),
                      response,
                      AssertStatus(response, {200},
                                   ListFromJson(Task, response,
                                                TaskExtra(project_id)))))

stop_project_task(project_id, id) ==
    \E response \in BareResponses :
        Call("stop_project_task", [project_id |-> project_id, id |-> id],
             Exchange(Request("POST",
                              api_endpoint \o "/project/" \o ToString(project_id)
                                  \o "/tasks/" \o ToString(id) \o "/stop", NoJson),
                      response, AssertStatus(response, {204}, ReturnsNone)))


\* get_project_task, were it to ask for the project's tasks without the id.
get_project_task_exchange_without_id(project_id, id, response) ==
    Exchange(Request("GET",
                     api_endpoint \o "/project/" \o ToString(project_id)
                         \o "/tasks", NoJson),
             response,
             AssertStatus(response, {200},
                          FromJson(Task, response, TaskExtra(project_id))))

\* The body of get_project_task, given the server's response.
get_project_task_exchange(project_id, id, response) ==
    Exchange(Request("GET",
                     api_endpoint \o "/project/" \o ToString(project_id)
                         \o "/tasks/" \o ToString(id), NoJson),
             response,
             AssertStatus(response, {200},
                          FromJson(Task, response, TaskExtra(project_id))))

get_project_task(project_id, id) ==
    \E response \in ObjectResponses(Task, TaskExtra(project_id)) :
        Call("get_project_task", [project_id |-> project_id, id |-> id],
             get_project_task_exchange(project_id, id, response))

delete_project_task(project_id, id) ==
    \E response \in BareResponses :
        Call("delete_project_task", [project_id |-> project_id, id |-> id],
             Exchange(Request("DELETE",
                              api_endpoint \o "/project/" \o ToString(project_id)
                                  \o "/tasks/" \o ToString(id), NoJson),
                      response, AssertStatus(response, {204}, ReturnsNone)))

get_project_task_output(project_id, id) ==
    \E response \in ObjectResponses(TaskOutput, NoExtra) :
        Call("get_project_task_output", [project_id |-> project_id, id |-> id],
             Exchange(Request("GET",
                              api_endpoint \o "/project/" \o ToString(project_id)
                                  \o "/tasks/" \o ToString(id) \o "/output",
                              NoJson),
                      response,
                      AssertStatus(response, {200},
                                   FromJson(TaskOutput, response, NoExtra))))

-----------------------------------------------------------------------------
(* The records' own methods: each delegates to the client the record holds *)

Integration_save(self) ==
    update_project_integration(self.project_id, self.id, self.name,
                               self.template_id)

Integration_delete(self) == delete_project_integration(self.project_id, self.id)

Token_delete(self) == delete_token(self.id)

Project_delete(self) == delete_project(self.id)

Project_save(self) ==
    update_project(self.id, self.name, self.alert, self.alert_chat,
                   self.max_parallel_tasks, self.type)

Project_backup(self) == backup_project(self.id)

Project_role(self) == get_project_role(self.id)

Project_events(self) == get_project_events(self.id)

Project_users(self, sort, order) == get_project_users(self.id, sort, order)

Project_add_user(self, user) == add_project_user(self.id, user)

Project_remove_user(self, user_id) == remove_project_user(self.id, user_id)

Project_update_user(self, user) == update_project_user(self.id, user)

Project_keys(self) == get_project_keys(self.id, None, None, None)

Project_create_key(self, name, key_type, override_secret, login_password, ssh) ==
    create_project_key(self.id, name, key_type, override_secret, login_password,
                       ssh)

Project_repositories(self) == get_project_repositories(self.id)

Project_create_repository(self, name, git_url, git_branch, ssh_key_id) ==
    create_project_repository(self.id, name, git_url, git_branch, ssh_key_id)

Project_environments(self) == get_project_environments(self.id)

Project_create_environment(self, name, password, json, env, secrets) ==
    create_project_environment(self.id, name, password, json, env, secrets)

Project_views(self) == get_project_views(self.id)

Project_create_view(self, title, position) ==
    create_project_view(self.id, title, position)

Project_inventories(self) == get_project_inventories(self.id)

Project_create_inventory(self, name, inventory, ssh_key_id, become_key_id, type, repository_id) ==
    create_project_inventory(self.id, name, inventory, ssh_key_id, become_key_id,
                             type, repository_id)

Project_templates(self) == get_project_templates(self.id)

Project_create_template(self, name, t) ==
    create_project_template(self.id, name, t)

Project_schedules(self) == get_project_schedules(self.id)

Project_create_schedule(self, template_id, name, cron_format, active) ==
    create_project_schedule(self.id, template_id, name, cron_format, active)

Project_tasks(self) == get_project_tasks(self.id)

Project_get_task(self, task_id) == get_project_task(self.id, task_id)

Key_delete(self) == delete_project_key(self.project_id, self.id)

Repository_delete(self) == delete_project_repository(self.project_id, self.id)

Environment_delete(self) == delete_project_environment(self.project_id, self.id)

View_delete(self) == delete_project_view(self.project_id, self.id)

Inventory_delete(self) == delete_project_inventory(self.project_id, self.id)

Template_delete(self) == delete_project_template(self.project_id, self.id)

Schedule_save(self) ==
    update_project_schedule(self.project_id, self.id, self.template_id,
                            self.name, self.cron_format, self.active)

Schedule_delete(self) == delete_project_schedule(self.project_id, self.id)

Task_stop(self) == stop_project_task(self.project_id, self.id)

Task_delete(self) == delete_project_task(self.project_id, self.id)

Task_output(self) == get_project_task_output(self.project_id, self.id)

-----------------------------------------------------------------------------
(* Template.run: the template's project's repositories are listed to resolve
   the git branch of the template's repository, a task is created from the
   template, and the task is fetched again by the id the creation returned. *)

\* The server's answer to the creation of a task: a thin envelope with the
\* new task's id alone.
EnvelopeResponses ==
    Responses({EmptyBody} \cup {ObjectBody([id |-> i]) : i \in Ids})

\* The server's answers to the fetch of the task: each well-formed object is
\* the full task, whose status tells it from the envelope.
FetchResponses(project_id) ==
    Responses({EmptyBody}
                  \cup {ObjectBody(JsonObject(Task \ DOMAIN TaskExtra(project_id),
                                              i, "a", project_id)) : i \in Ids})

\* response.json()["id"]
EnvelopeId(response) ==
    IF response.body.kind = "empty" THEN Raises("ValueError")
    ELSE IF response.body.kind # "object" THEN Raises("TypeError")
    ELSE IF "id" \notin DOMAIN response.body.items[1] THEN Raises("KeyError")
    ELSE Returns("id", <<response.body.items[1].id>>)

Template_run(self, debug, dry_run, diff, message, limit, environment) ==
    LET a == [debug |-> debug, dry_run |-> dry_run, diff |-> diff,
              message |-> message, limit |-> limit, environment |-> environment]
    IN  \E listing \in ListResponses(Repository, client, self.project_id) :
            LET listed == get_project_repositories_exchange(self.project_id, listing)
                repos == SelectSeq(listed.end.items,
                                   LAMBDA r : r.id = self.repository_id)
            IN  IF listed.end.outcome # "ok"
                THEN Call("Template.run", a, listed)
                ELSE IF Len(repos) = 0
                THEN Call("Template.run", a,
                          [listed EXCEPT !.end = Raises("IndexError")])
                ELSE \E response \in EnvelopeResponses :
                         LET post == Request("POST",
                                             api_endpoint \o "/project/"
                                                 \o ToString(self.project_id)
                                                 \o "/tasks",
                                             [template_id |-> self.id,
                                              debug |-> debug,
                                              dry_run |-> dry_run,
                                              diff |-> diff,
                                              message |-> message,
                                              limit |-> limit,
                                              environment |-> environment,
                                              git_branch |-> repos[1].git_branch])
                             posted == Exchange(post, response,
                                                AssertStatus(response, {201},
                                                             EnvelopeId(response)))
                         IN  IF posted.end.outcome # "ok"
                             THEN Call("Template.run", a,
                                       Then(listed, posted, posted.end))
                             ELSE \E fetch \in FetchResponses(self.project_id) :
                                      LET fetched ==
                                              get_project_task_exchange(
                                                  self.project_id,
                                                  posted.end.items[1], fetch)
                                      IN  Call("Template.run", a,
                                               Then(Then(listed, posted, posted.end),
                                                    fetched, fetched.end))

-----------------------------------------------------------------------------
(* The caller *)

\* The caller takes the result (or the exception) and is free to call again.
Return ==
    /\ pc = "done"
    /\ pc' = "idle"
    /\ op' = ""
    /\ args' = <<>>
    /\ reqs' = <<>>
    /\ resps' = <<>>
    /\ outcome' = "none"
    /\ result' = [kind |-> "none", items |-> <<>>]
    /\ receiver' = NoReceiver
    /\ held' = held

Init ==
    /\ pc = "idle"
    /\ op = ""
    /\ args = <<>>
    /\ reqs = <<>>
    /\ resps = <<>>
    /\ outcome = "none"
    /\ result = [kind |-> "none", items |-> <<>>]
    /\ receiver = NoReceiver
    /\ held = NoRecord

Next ==
    \/ \E user \in {"admin"}, password \in {"pw", "bad"} : Direct(login(user, password))
    \/ Direct(whoami)
    \/ Direct(logout)
    \/ Direct(tokens)
    \/ Direct(create_token)
    \/ \E id \in Ids : Direct(delete_token(id))
    \/ Direct(projects)
    \/ \E id \in ProjectIds : Direct(get_project(id))
    \/ \E name \in Names :
           Direct(create_project(name, FALSE, "", 0, None, FALSE))
    \/ \E id \in ProjectIds : Direct(delete_project(id))
    \/ \E id \in ProjectIds, name \in Names :
           Direct(update_project(id, name, FALSE, "", 0, None))
    \/ \E id \in ProjectIds : Direct(backup_project(id))
    \/ \E id \in ProjectIds : Direct(get_project_role(id))
    \/ \E id \in ProjectIds : Direct(get_project_events(id))
    \/ \E id \in ProjectIds : Direct(get_project_users(id, "name", "asc"))
    \/ \E id \in ProjectIds, user \in Users : Direct(add_project_user(id, user))
    \/ \E id \in ProjectIds, user \in Users : Direct(update_project_user(id, user))
    \/ \E id \in ProjectIds, user_id \in Ids : Direct(remove_project_user(id, user_id))
    \/ \E id \in ProjectIds : Direct(get_project_integrations(id))
    \/ \E project_id \in ProjectIds, name \in Names :
           Direct(create_project_integrations(project_id, name, 1))
    \/ \E project_id \in ProjectIds, id \in Ids, name \in Names :
           Direct(update_project_integration(project_id, id, name, 1))
    \/ \E project_id \in ProjectIds, id \in Ids :
           Direct(delete_project_integration(project_id, id))
    \/ \E project_id \in ProjectIds :
           Direct(get_project_keys(project_id, None, None, None))
    \/ \E project_id \in ProjectIds, name \in Names, key_type \in KeyTypes,
          login_password \in {None, Some(<<"lp-login", "lp-password">>)},
          ssh \in {None, Some(<<"ssh-login", "ssh-passphrase", "ssh-key">>)} :
           Direct(create_project_key(project_id, name, key_type, FALSE,
                                     login_password, ssh))
    \/ \E project_id \in ProjectIds, id \in Ids :
           Direct(delete_project_key(project_id, id))
    \/ \E project_id \in ProjectIds :
           Direct(get_project_repositories(project_id))
    \/ \E project_id \in ProjectIds, name \in Names :
           Direct(create_project_repository(project_id, name, "git@host:repo",
                                            "main", 1))
    \/ \E project_id \in ProjectIds, id \in Ids :
           Direct(delete_project_repository(project_id, id))
    \/ \E project_id \in ProjectIds :
           Direct(get_project_environments(project_id))
    \/ \E project_id \in ProjectIds, name \in Names :
           Direct(create_project_environment(project_id, name, "secret", "{}",
                                             "{}", <<>>))
    \/ \E project_id \in ProjectIds, id \in Ids :
           Direct(delete_project_environment(project_id, id))
    \/ \E project_id \in ProjectIds : Direct(get_project_views(project_id))
    \/ \E project_id \in ProjectIds, title \in Names :
           Direct(create_project_view(project_id, title, 1))
    \/ \E project_id \in ProjectIds, id \in Ids :
           Direct(delete_project_view(project_id, id))
    \/ \E project_id \in ProjectIds : Direct(get_project_inventories(project_id))
    \/ \E project_id \in ProjectIds, name \in Names :
           Direct(create_project_inventory(project_id, name, "hosts", 1, 1,
                                           "static", 1))
    \/ \E project_id \in ProjectIds, id \in Ids :
           Direct(delete_project_inventory(project_id, id))
    \/ \E project_id \in ProjectIds : Direct(get_project_templates(project_id))
    \/ \E project_id \in ProjectIds, name \in Names :
           Direct(create_project_template(project_id, name, TemplateArgs))
    \/ \E project_id \in ProjectIds, id \in Ids :
           Direct(delete_project_template(project_id, id))
    \/ \E project_id \in ProjectIds : Direct(get_project_schedules(project_id))
    \/ \E project_id \in ProjectIds, name \in Names :
           Direct(create_project_schedule(project_id, 1, name, "* * * * *", TRUE))
    \/ \E project_id \in ProjectIds, schedule_id \in Ids, name \in Names :
           Direct(update_project_schedule(project_id, schedule_id, 1, name,
                                          "* * * * *", TRUE))
    \/ \E project_id \in ProjectIds, schedule_id \in Ids :
           Direct(delete_project_schedule(project_id, schedule_id))
    \/ \E project_id \in ProjectIds : Direct(get_project_tasks(project_id))
    \/ \E project_id \in ProjectIds, id \in Ids :
           Direct(stop_project_task(project_id, id))
    \/ \E project_id \in ProjectIds, id \in Ids :
           Direct(get_project_task(project_id, id))
    \/ \E project_id \in ProjectIds, id \in Ids :
           Direct(delete_project_task(project_id, id))
    \/ \E project_id \in ProjectIds, id \in Ids :
           Direct(get_project_task_output(project_id, id))
    \/ \E self \in Records(Integration, client) :
           On("Integration", "save", self, Integration_save(self))
    \/ \E self \in Records(Integration, client) :
           On("Integration", "delete", self, Integration_delete(self))
    \/ \E self \in Records(Token, client) :
           On("Token", "delete", self, Token_delete(self))
    \/ \E self \in Named(Records(Project, client), "a") :
           On("Project", "delete", self, Project_delete(self))
    \/ \E self \in Records(Project, client) :
           On("Project", "save", self, Project_save(self))
    \/ \E self \in Named(Records(Project, client), "a") :
           On("Project", "backup", self, Project_backup(self))
    \/ \E self \in Named(Records(Project, client), "a") :
           On("Project", "role", self, Project_role(self))
    \/ \E self \in Named(Records(Project, client), "a") :
           On("Project", "events", self, Project_events(self))
    \/ \E self \in Named(Records(Project, client), "a") :
           On("Project", "users", self, Project_users(self, "name", "asc"))
    \/ \E self \in Named(Records(Project, client), "a"), user \in Users :
           On("Project", "add_user", self, Project_add_user(self, user))
    \/ \E self \in Named(Records(Project, client), "a"), user_id \in Ids :
           On("Project", "remove_user", self, Project_remove_user(self, user_id))
    \/ \E self \in Named(Records(Project, client), "a"), user \in Users :
           On("Project", "update_user", self, Project_update_user(self, user))
    \/ \E self \in Named(Records(Project, client), "a") :
           On("Project", "keys", self, Project_keys(self))
    \/ \E self \in Named(Records(Project, client), "a"), name \in Names, key_type \in KeyTypes,
          login_password \in {None, Some(<<"lp-login", "lp-password">>)},
          ssh \in {None, Some(<<"ssh-login", "ssh-passphrase", "ssh-key">>)} :
           On("Project", "create_key", self,
              Project_create_key(self, name, key_type, FALSE, login_password, ssh))
    \/ \E self \in Named(Records(Project, client), "a") :
           On("Project", "repositories", self, Project_repositories(self))
    \/ \E self \in Named(Records(Project, client), "a"), name \in Names :
           On("Project", "create_repository", self,
              Project_create_repository(self, name, "git@host:repo", "main", 1))
    \/ \E self \in Named(Records(Project, client), "a") :
           On("Project", "environments", self, Project_environments(self))
    \/ \E self \in Named(Records(Project, client), "a"), name \in Names :
           On("Project", "create_environment", self,
              Project_create_environment(self, name, "secret", "{}", "{}", <<>>))
    \/ \E self \in Named(Records(Project, client), "a") :
           On("Project", "views", self, Project_views(self))
    \/ \E self \in Named(Records(Project, client), "a"), title \in Names :
           On("Project", "create_view", self, Project_create_view(self, title, 1))
    \/ \E self \in Named(Records(Project, client), "a") :
           On("Project", "inventories", self, Project_inventories(self))
    \/ \E self \in Named(Records(Project, client), "a"), name \in Names :
           On("Project", "create_inventory", self,
              Project_create_inventory(self, name, "hosts", 1, 1, "static", 1))
    \/ \E self \in Named(Records(Project, client), "a") :
           On("Project", "templates", self, Project_templates(self))
    \/ \E self \in Named(Records(Project, client), "a"), name \in Names :
           On("Project", "create_template", self,
              Project_create_template(self, name, TemplateArgs))
    \/ \E self \in Named(Records(Project, client), "a") :
           On("Project", "schedules", self, Project_schedules(self))
    \/ \E self \in Named(Records(Project, client), "a"), name \in Names :
           On("Project", "create_schedule", self,
              Project_create_schedule(self, 1, name, "* * * * *", TRUE))
    \/ \E self \in Named(Records(Project, client), "a") :
           On("Project", "tasks", self, Project_tasks(self))
    \/ \E self \in Named(Records(Project, client), "a"), task_id \in Ids :
           On("Project", "get_task", self, Project_get_task(self, task_id))
    \/ \E self \in Records(Key, client) :
           On("Key", "delete", self, Key_delete(self))
    \/ \E self \in Records(Repository, client) :
           On("Repository", "delete", self, Repository_delete(self))
    \/ \E self \in Records(Environment, client) :
           On("Environment", "delete", self, Environment_delete(self))
    \/ \E self \in Records(View, client) :
           On("View", "delete", self, View_delete(self))
    \/ \E self \in Records(Inventory, client) :
           On("Inventory", "delete", self, Inventory_delete(self))
    \/ \E self \in Records(Template, client) :
           On("Template", "delete", self, Template_delete(self))
    \/ \E self \in Records(Schedule, client) :
           On("Schedule", "save", self, Schedule_save(self))
    \/ \E self \in Records(Schedule, client) :
           On("Schedule", "delete", self, Schedule_delete(self))
    \/ \E self \in TaskRecords : On("Task", "stop", self, Task_stop(self))
    \/ \E self \in TaskRecords : On("Task", "delete", self, Task_delete(self))
    \/ \E self \in TaskRecords : On("Task", "output", self, Task_output(self))
    \/ \E self \in Named(Records(Template, client), "a") :
           On("Template", "run", self, Template_run(self, FALSE, FALSE, FALSE, "", "", ""))
    \/ Return

Spec == Init /\ [][Next]_vars

-----------------------------------------------------------------------------
(* The records the caller keeps.  A record is built by the client from a
   response; the caller keeps it, edits its fields, calls its methods, and
   drops it.  The caller keeps one record at a time. *)

\* The class of the records an operation of the client returns, for the
\* classes the caller keeps.
BuiltClass(o) ==
    CASE o = "get_project" -> "Project"
      [] o = "get_project_integrations" -> "Integration"
      [] o \in {"get_project_schedules", "create_project_schedule"} -> "Schedule"
      [] o \in {"get_project_tasks", "get_project_task"} -> "Task"
      [] OTHER -> "none"

\* The caller takes the result of a call and keeps one of the records in it.
Keep ==
    /\ pc = "done"
    /\ outcome = "ok"
    /\ BuiltClass(op) # "none"
    /\ \E k \in 1..Len(result.items) :
           held' = [cls |-> BuiltClass(op), fields |-> result.items[k],
                    built |-> result.items[k],
                    origin |-> [op |-> op, args |-> args]]
    /\ pc' = "idle"
    /\ op' = ""
    /\ args' = <<>>
    /\ reqs' = <<>>
    /\ resps' = <<>>
    /\ outcome' = "none"
    /\ result' = [kind |-> "none", items |-> <<>>]
    /\ receiver' = NoReceiver

\* The caller lets go of the record it holds.
Drop ==
    /\ pc = "idle"
    /\ held # NoRecord
    /\ held' = NoRecord
    /\ UNCHANGED <<pc, op, args, reqs, resps, outcome, result, receiver>>

\* The fields of a record with a save method that the caller edits.
Edits ==
    [Project |-> {"name"},
     Integration |-> {"name", "template_id"},
     Schedule |-> {"name", "repository_id", "active"}]

\* The value the caller gives a field: one the server never sent.
EditedValue(f) ==
    CASE f = "name" -> "c"
      [] f \in {"template_id", "repository_id"} -> 2
      [] f = "active" -> TRUE

\* record.f = value, on a plain dataclass: the attribute is set and nothing
\* else happens.
Edit(f) ==
    /\ pc = "idle"
    /\ held.cls \in DOMAIN Edits
    /\ f \in Edits[held.cls]
    /\ held.fields[f] # EditedValue(f)
    /\ held' = [held EXCEPT !.fields[f] = EditedValue(f)]
    /\ UNCHANGED <<pc, op, args, reqs, resps, outcome, result, receiver>>


\* The record after one of its methods has run, were delete to clear the id
\* of the record it deleted.
AfterMethodDeleteClearsId(method, self) ==
    IF method = "delete" THEN [self EXCEPT !.id = 0] ELSE self

\* The record after one of its methods has run: no method of a record assigns
\* to self, and the client's methods are passed the fields' values, not the
\* record.
AfterMethod(method, self) == self

\* A method called on the record the caller holds.
OnHeld(cls, method, A) ==
    /\ pc = "idle"
    /\ held.cls = cls
    /\ A
    /\ receiver' = [cls |-> cls, method |-> method, fields |-> held.fields]
    /\ held' = [held EXCEPT !.fields = AfterMethod(method, held.fields)]

\* A method called on the client by a caller that holds no record.
Alone(A) == held = NoRecord /\ Direct(A)

RecordInit == Init

RecordNext ==
    \/ \E id \in ProjectIds : Alone(get_project(id))
    \/ \E id \in ProjectIds : Alone(get_project_integrations(id))
    \/ \E project_id \in ProjectIds : Alone(get_project_schedules(project_id))
    \/ \E project_id \in ProjectIds, name \in Names :
           Alone(create_project_schedule(project_id, 1, name, "* * * * *", TRUE))
    \/ \E project_id \in ProjectIds : Alone(get_project_tasks(project_id))
    \/ \E project_id \in ProjectIds, id \in Ids :
           Alone(get_project_task(project_id, id))
    \/ \E project_id \in ProjectIds, schedule_id \in Ids :
           Direct(delete_project_schedule(project_id, schedule_id))
    \/ \E project_id \in ProjectIds, id \in Ids :
           Direct(stop_project_task(project_id, id))
    \/ Keep
    \/ Drop
    \/ \E f \in {"name", "template_id", "repository_id", "active"} : Edit(f)
    \/ OnHeld("Project", "save", Project_save(held.fields))
    \/ OnHeld("Project", "delete", Project_delete(held.fields))
    \/ OnHeld("Project", "schedules", Project_schedules(held.fields))
    \/ OnHeld("Project", "tasks", Project_tasks(held.fields))
    \/ \E task_id \in Ids :
           OnHeld("Project", "get_task", Project_get_task(held.fields, task_id))
    \/ OnHeld("Integration", "save", Integration_save(held.fields))
    \/ OnHeld("Integration", "delete", Integration_delete(held.fields))
    \/ OnHeld("Schedule", "save", Schedule_save(held.fields))
    \/ OnHeld("Schedule", "delete", Schedule_delete(held.fields))
    \/ OnHeld("Task", "stop", Task_stop(held.fields))
    \/ OnHeld("Task", "delete", Task_delete(held.fields))
    \/ OnHeld("Task", "output", Task_output(held.fields))
    \/ Return

RecordSpec == RecordInit /\ [][RecordNext]_vars

-----------------------------------------------------------------------------
(* Properties *)

\* The create methods that list the collection again when the response to the
\* POST does not parse.
FallbackCreates ==
    {"create_project_key", "create_project_repository",
     "create_project_environment"}

\* The fallback path was taken: the POST was answered 204 with a body that
\* does not parse, and the collection was listed.
FallbackTaken ==
    /\ pc = "done"
    /\ op \in FallbackCreates
    /\ Len(resps) = 2
    /\ resps[1].status_code = 204
    /\ resps[1].body.kind = "empty"

\* The class of the records a fallback create returns.
CreatedClass ==
    CASE op = "create_project_key" -> Key
      [] op = "create_project_repository" -> Repository
      [] op = "create_project_environment" -> Environment

\* The delete methods of the client.
Deletes ==
    {"delete_token", "delete_project", "delete_project_integration",
     "delete_project_key", "delete_project_repository",
     "delete_project_environment", "delete_project_view",
     "delete_project_inventory", "delete_project_template",
     "delete_project_schedule", "delete_project_task"}

\* C1: login sends exactly one request, a POST to /auth/login; it raises its
\* error (the ValueError "Username and/or password incorrect") whenever the
\* status of the response is not 204 and returns normally exactly when it is.
C1_LoginSucceedsExactlyOn204 ==
    (pc = "done" /\ op = "login") =>
        /\ Len(reqs) = 1
        /\ Len(resps) = 1
        /\ reqs[1].method = "POST"
        /\ reqs[1].url = api_endpoint \o "/auth/login"
        /\ (outcome = "ok" <=> resps[1].status_code = 204)
        /\ (resps[1].status_code # 204 => outcome = "ValueError")

\* A login the server answered with a 200 has failed.
C1_Witness ==
    /\ pc = "done"
    /\ op = "login"
    /\ resps[1].status_code = 200
    /\ outcome = "ValueError"

\* C2: every delete method succeeds on a 204; delete_token alone succeeds on a
\* 404 as well; on every other status the call fails.
C2_DeleteSucceedsOn204 ==
    (pc = "done" /\ op \in Deletes) =>
        /\ Len(reqs) = 1
        /\ reqs[1].method = "DELETE"
        /\ (outcome = "ok" <=>
               \/ resps[1].status_code = 204
               \/ op = "delete_token" /\ resps[1].status_code = 404)
        /\ (outcome # "ok" => outcome = "AssertionError" /\ result.kind = "none")

\* A delete of a key answered with a 404 has failed.
C2_Witness ==
    /\ pc = "done"
    /\ op = "delete_project_key"
    /\ resps[1].status_code = 404
    /\ outcome = "AssertionError"

\* The arguments of the create_project_key call in progress are ones the
\* method must reject.
KeyArgumentsInvalid ==
    \/ args.key_type \notin {"ssh", "login_password"}
    \/ args.key_type = "ssh" /\ args.ssh = None
    \/ args.key_type = "login_password" /\ args.login_password = None

\* C3: create_project_key, called on the client or through Project.create_key,
\* raises ValueError and has sent no request when the key type is neither
\* "ssh" nor "login_password", or the tuple of the chosen type is absent.
C3_InvalidKeyRejectedBeforeAnyRequest ==
    (pc = "done" /\ op = "create_project_key" /\ KeyArgumentsInvalid) =>
        /\ outcome = "ValueError"
        /\ reqs = <<>>
        /\ resps = <<>>
        /\ result.kind = "none"

\* Project.create_key("bogus", ...) with a login_password tuple supplied was
\* rejected without a request.
C3_Witness ==
    /\ pc = "done"
    /\ op = "create_project_key"
    /\ receiver.cls = "Project"
    /\ receiver.method = "create_key"
    /\ args.key_type = "bogus"
    /\ args.login_password # None
    /\ outcome = "ValueError"
    /\ reqs = <<>>

\* C4: the payload of every create_project_key request carries both
\* sub-objects: the one of the chosen type filled from its tuple, the other
\* with empty strings, whether or not the caller supplied the other tuple.
C4_KeyPayloadCarriesBothSubObjects ==
    (pc = "done" /\ op = "create_project_key" /\ Len(reqs) >= 1) =>
        /\ DOMAIN reqs[1].json =
               {"id", "project_id", "name", "type", "override_secret",
                "login_password", "ssh"}
        /\ reqs[1].json.type = args.key_type
        /\ args.key_type = "ssh" =>
               /\ reqs[1].json.ssh =
                      [login |-> args.ssh[1][1], passphrase |-> args.ssh[1][2],
                       private_key |-> args.ssh[1][3]]
               /\ reqs[1].json.login_password = [login |-> "", password |-> ""]
        /\ args.key_type = "login_password" =>
               /\ reqs[1].json.login_password =
                      [login |-> args.login_password[1][1],
                       password |-> args.login_password[1][2]]
               /\ reqs[1].json.ssh =
                      [login |-> "", passphrase |-> "", private_key |-> ""]

\* An ssh key was posted by a caller who supplied both tuples.
C4_Witness ==
    /\ pc = "done"
    /\ op = "create_project_key"
    /\ args.key_type = "ssh"
    /\ args.ssh # None
    /\ args.login_password # None
    /\ Len(reqs) >= 1
    /\ reqs[1].method = "POST"

\* The positions of the listing (the second response) at which the record
\* carries the submitted name.
NamedPositions ==
    {k \in 1..Len(resps[2].body.items) : resps[2].body.items[k].name = args.name}

\* The second response is a listing the client can read: a 200 with an array
\* of well-formed objects of the created class.
ListingRead ==
    /\ resps[2].status_code = 200
    /\ resps[2].body.kind = "array"
    /\ \A k \in 1..Len(resps[2].body.items) :
           DOMAIN resps[2].body.items[k] = CreatedClass \ {"client"}

\* C5: when the POST of a key, repository or environment was accepted with a
\* body that does not parse and the listing that follows holds exactly one
\* record with the submitted name, the create call returns that record.
C5_FallbackReturnsTheOneNamedRecord ==
    (FallbackTaken /\ ListingRead /\ Cardinality(NamedPositions) = 1) =>
        /\ outcome = "ok"
        /\ result.kind = "record"
        /\ result.items =
               <<resps[2].body.items[CHOOSE k \in NamedPositions : TRUE] @@ client>>

\* The one record with the submitted name stood second in the listing, behind
\* a record with another name, and was returned.
C5_Witness ==
    /\ FallbackTaken
    /\ ListingRead
    /\ NamedPositions = {2}
    /\ outcome = "ok"
    /\ result.items[1].name = args.name

CreatesInProject ==
    {"create_project_integrations", "create_project_key",
     "create_project_repository", "create_project_environment",
     "create_project_view", "create_project_inventory",
     "create_project_template", "create_project_schedule"}

\* C7: the record a create method builds from the response to its POST carries
\* the project id the caller passed, whatever the body of the response says.
C7_CreatedRecordCarriesProjectPassed ==
    (pc = "done" /\ op \in CreatesInProject /\ outcome = "ok" /\ Len(resps) = 1) =>
        result.items[1].project_id = args.project_id

\* The POST of a key, repository or environment was answered 204 with a body
\* that does not parse: the collection is to be listed.
FallbackDue ==
    /\ op \in FallbackCreates
    /\ Len(resps) >= 1
    /\ resps[1].status_code = 204
    /\ resps[1].body.kind = "empty"

\* C8, as stated: every method of the client has sent exactly one request when
\* it ends, or exactly two on the fallback path of the three create methods.
C8_OneRequestOrTwoOnFallback ==
    (pc = "done" /\ op # "Template.run") =>
        Len(reqs) = IF FallbackDue THEN 2 ELSE 1

\* C8, amended: every method of the client has sent exactly one request when it
\* ends and has had its response, except that the fallback path of the three
\* create methods has sent exactly two (the POST, then the GET of the listing)
\* and that a create_project_key call whose arguments are rejected has sent
\* none.
C8_RequestsPerOperation ==
    (pc = "done" /\ op # "Template.run") =>
        /\ Len(resps) = Len(reqs)
        /\ Len(reqs) = IF op = "create_project_key" /\ KeyArgumentsInvalid THEN 0
                       ELSE IF FallbackDue THEN 2
                       ELSE 1
        /\ Len(reqs) = 2 =>
               /\ reqs[1].method = "POST"
               /\ reqs[2].method = "GET"
               /\ reqs[2].url = reqs[1].url

\* A repository was created on the fallback path: a POST, then the GET of the
\* listing, and the call returned.
C8_Witness ==
    /\ pc = "done"
    /\ op = "create_project_repository"
    /\ FallbackDue
    /\ Len(reqs) = 2
    /\ reqs[2].method = "GET"
    /\ outcome = "ok"

\* The status codes method o accepts of the response to its k-th request.
AcceptedStatuses(o, k) ==
    CASE o \in {"login", "logout", "add_project_user", "update_project",
                "update_project_user", "remove_project_user",
                "update_project_integration", "stop_project_task"} -> {204}
      [] o \in Deletes \ {"delete_token"} -> {204}
      [] o = "delete_token" -> {204, 404}
      [] o \in {"create_token", "create_project", "create_project_view",
                "create_project_inventory", "create_project_template",
                "create_project_schedule", "update_project_schedule"} -> {201}
      [] o \in FallbackCreates -> IF k = 1 THEN {204} ELSE {200}
      [] OTHER -> {200}

\* C9: when a method of the client is answered a status code it does not
\* accept, that response is its last: the method raises, returns no record and
\* sends no further request (no retry, no listing on the create paths).
C9_RejectedStatusFailsAtOnce ==
    (pc = "done" /\ op # "Template.run") =>
        \A k \in 1..Len(resps) :
            resps[k].status_code \notin AcceptedStatuses(op, k) =>
                /\ outcome \in {"AssertionError", "ValueError"}
                /\ (outcome = "ValueError" => op = "login")
                /\ result.kind = "none"
                /\ result.items = <<>>
                /\ Len(reqs) = k
                /\ Len(resps) = k

\* The POST of a key was answered 500 with an empty body: the call raised and
\* did not go on to list the keys.
C9_Witness ==
    /\ pc = "done"
    /\ op = "create_project_key"
    /\ Len(resps) = 1
    /\ resps[1].status_code = 500
    /\ resps[1].body.kind = "empty"
    /\ outcome = "AssertionError"
    /\ Len(reqs) = 1

\* The update methods of the client; the save methods of Project, Integration
\* and Schedule call them.
Updates ==
    {"update_project", "update_project_user", "update_project_integration",
     "update_project_schedule"}

\* C10: every update method succeeds exactly when the server answers 204.
C10_UpdateSucceedsExactlyOn204 ==
    (pc = "done" /\ op \in Updates) =>
        (outcome = "ok" <=> resps[1].status_code = 204)

\* The field names of the classes that have a save method.
SavedClass(cls) ==
    CASE cls = "Project" -> Project
      [] cls = "Integration" -> Integration
      [] cls = "Schedule" -> Schedule

\* The fields a save is to push: all of the record's but its identity (id and
\* project_id), its reference to the client and the timestamp the server set.
MutableFields(cls) == SavedClass(cls) \ {"id", "project_id", "client", "created"}

\* The address of a record on the server: its collection under its project,
\* then its id.
RecordUrl(cls, self) ==
    CASE cls = "Project" -> api_endpoint \o "/project/" \o ToString(self.id)
      [] cls = "Integration" ->
             api_endpoint \o "/project/" \o ToString(self.project_id)
                 \o "/integrations/" \o ToString(self.id)
      [] cls = "Schedule" ->
             api_endpoint \o "/project/" \o ToString(self.project_id)
                 \o "/schedules/" \o ToString(self.id)

\* C11: an edit of a kept record sends nothing; the save of a Project,
\* Integration or Schedule sends one request, to the record's own address
\* (its project id and id), whose payload carries the current value of every
\* mutable field of the record.
C11_SavePushesEveryMutableField ==
    /\ (pc = "idle" => reqs = <<>> /\ resps = <<>>)
    /\ (pc = "done" /\ receiver.method = "save") =>
           /\ Len(reqs) = 1
           /\ reqs[1].url = RecordUrl(receiver.cls, receiver.fields)
           /\ \A f \in MutableFields(receiver.cls) :
                  /\ f \in DOMAIN reqs[1].json
                  /\ reqs[1].json[f] = receiver.fields[f]

\* C12: whatever the caller has done since it was handed a record (listed,
\* fetched, created, edited other fields, saved, deleted, stopped, read the
\* output), the record's id is the id the client built it with: no method of
\* the client or of a record writes it.
C12_RecordIdNeverWritten ==
    held # NoRecord =>
        /\ held.fields.id = held.built.id
        /\ (pc = "done" /\ receiver.cls = held.cls) =>
               receiver.fields.id = held.built.id

\* A schedule built with id 2 was renamed by the caller and its delete method
\* has run to a successful end: the record still carries id 2.
C12_Witness ==
    /\ pc = "done"
    /\ held.cls = "Schedule"
    /\ receiver.method = "delete"
    /\ outcome = "ok"
    /\ held.built.id = 2
    /\ held.fields.id = 2
    /\ held.fields.name = "c"
    /\ held.built.name # "c"

\* C13: every Task that get_project_tasks(p) or get_project_task(p, id)
\* returns carries project_id p, taken from the call and not from the payload,
\* which has no project id; and the stop, delete and output methods of a Task
\* the caller kept send their one request to /project/p/tasks/<the task's id>.
C13_TaskCarriesTheProjectAsked ==
    /\ (pc = "done" /\ op \in {"get_project_tasks", "get_project_task"}
            /\ outcome = "ok") =>
           \A k \in 1..Len(result.items) :
               /\ result.items[k].project_id = args.project_id
               /\ "project_id" \notin DOMAIN resps[1].body.items[k]
               /\ result.items[k].id = resps[1].body.items[k].id
    /\ (pc = "done" /\ receiver.cls = "Task") =>
           LET task == api_endpoint \o "/project/"
                           \o ToString(held.origin.args.project_id)
                           \o "/tasks/" \o ToString(held.built.id)
           IN  /\ held.cls = "Task"
               /\ reqs =
                      CASE receiver.method = "stop" ->
                               <<Request("POST", task \o "/stop", NoJson)>>
                        [] receiver.method = "delete" ->
                               <<Request("DELETE", task, NoJson)>>
                        [] receiver.method = "output" ->
                               <<Request("GET", task \o "/output", NoJson)>>

\* A task with id 1 was kept from the listing of project 2's tasks and its
\* stop method has run: the request went to /project/2/tasks/1/stop.
C13_Witness ==
    /\ pc = "done"
    /\ receiver.cls = "Task"
    /\ receiver.method = "stop"
    /\ held.origin.op = "get_project_tasks"
    /\ held.origin.args.project_id = 2
    /\ held.built.id = 1
    /\ Len(reqs) = 1
    /\ reqs[1].url = api_endpoint \o "/project/2/tasks/1/stop"

\* The methods of the client that fetch a single record.
GetSingles ==
    {"get_project", "get_project_task", "get_project_task_output",
     "backup_project", "get_project_role"}

\* The class of the record each of them builds, and the keyword arguments the
\* client adds to the payload.
SingleClass ==
    CASE op = "get_project" -> Project \ {"client"}
      [] op = "get_project_task" -> Task \ {"client", "project_id"}
      [] op = "get_project_task_output" -> TaskOutput
      [] op = "backup_project" -> ProjectBackup
      [] op = "get_project_role" -> Permissions

\* The errors that say that something looked up was not found.
NotFoundErrors ==
    {"NotFound", "NotFoundError", "LookupError", "KeyError", "IndexError"}

\* C14, as stated: a get of a single record returns a record only when the
\* status is 200, and on every other status fails with a not-found error and
\* returns no record.
C14_GetFailsWithNotFound ==
    (pc = "done" /\ op \in GetSingles) =>
        /\ (result.kind = "record" => resps[1].status_code = 200)
        /\ (resps[1].status_code # 200 =>
                outcome \in NotFoundErrors /\ result.kind = "none")

\* C14, amended: a get of a single record sends one GET and returns a record
\* only when the status is 200 (and the body is an object with the fields of
\* the class); on every other status it fails with the AssertionError of
\* every unexpected status, whatever the status was, and returns no record.
C14_GetFailsWithAssertionError ==
    (pc = "done" /\ op \in GetSingles) =>
        /\ Len(reqs) = 1
        /\ reqs[1].method = "GET"
        /\ (result.kind = "record" => resps[1].status_code = 200)
        /\ (outcome = "ok" <=>
                /\ resps[1].status_code = 200
                /\ resps[1].body.kind = "object"
                /\ DOMAIN resps[1].body.items[1] = SingleClass)
        /\ (outcome = "ok" => result.kind = "record")
        /\ (resps[1].status_code # 200 =>
                /\ outcome = "AssertionError"
                /\ result.kind = "none"
                /\ result.items = <<>>)

\* get_project was answered 404 with the body of a project: it raised
\* AssertionError and returned nothing.
C14_Witness ==
    /\ pc = "done"
    /\ op = "get_project"
    /\ resps[1].status_code = 404
    /\ resps[1].body.kind = "object"
    /\ DOMAIN resps[1].body.items[1] = Project \ {"client"}
    /\ outcome = "AssertionError"
    /\ result.kind = "none"

\* The methods of the client that return a list of records.
Lists ==
    {"tokens", "projects", "get_project_events", "get_project_users",
     "get_project_integrations", "get_project_keys", "get_project_repositories",
     "get_project_environments", "get_project_views", "get_project_inventories",
     "get_project_templates", "get_project_schedules", "get_project_tasks"}

\* The class of the records the list method in progress builds.
ListClass ==
    CASE op = "tokens" -> Token
      [] op = "projects" -> Project
      [] op = "get_project_events" -> Event
      [] op = "get_project_users" -> User
      [] op = "get_project_integrations" -> Integration
      [] op = "get_project_keys" -> Key
      [] op = "get_project_repositories" -> Repository
      [] op = "get_project_environments" -> Environment
      [] op = "get_project_views" -> View
      [] op = "get_project_inventories" -> Inventory
      [] op = "get_project_templates" -> Template
      [] op = "get_project_schedules" -> Schedule
      [] op = "get_project_tasks" -> Task

\* The keyword arguments it adds to each element of the response.
ListExtra ==
    CASE op \in {"get_project_events", "get_project_users"} -> NoExtra
      [] op = "get_project_tasks" -> TaskExtra(args.project_id)
      [] OTHER -> client

\* The response is a sequence of well-formed objects of the class.
SequenceSent ==
    /\ resps[1].body.kind = "array"
    /\ \A k \in 1..Len(resps[1].body.items) :
           DOMAIN resps[1].body.items[k] = ListClass \ DOMAIN ListExtra

\* The result is the response's sequence, element for element and in its
\* order, each record made of the element's fields and, where the class has a
\* client field, the client that made the call.
SequenceReturned ==
    /\ result.kind = "list"
    /\ Len(result.items) = Len(resps[1].body.items)
    /\ \A k \in 1..Len(result.items) :
           /\ result.items[k] = resps[1].body.items[k] @@ ListExtra
           /\ "client" \in ListClass => result.items[k].client = client.client

\* C15: a list method answered 200 with a sequence of objects of its class
\* returns one record per element, in the server's order (none for an empty
\* sequence), each with the calling client in its client field; and it
\* returns no other list.
C15_ListKeepsTheServersSequence ==
    (pc = "done" /\ op \in Lists) =>
        /\ (resps[1].status_code = 200 /\ SequenceSent) =>
               outcome = "ok" /\ SequenceReturned
        /\ (outcome = "ok" /\ resps[1].body.kind = "array") => SequenceReturned
        /\ (outcome = "ok" /\ resps[1].body.kind # "array") => result.items = <<>>

\* The templates of a project were listed and the server sent the one with
\* id 2 before the one with id 1: the list returned has them in that order.
C15_Witness ==
    /\ pc = "done"
    /\ op = "get_project_templates"
    /\ outcome = "ok"
    /\ Len(resps[1].body.items) = 2
    /\ resps[1].body.items[1].id = 2
    /\ resps[1].body.items[2].id = 1
    /\ Len(result.items) = 2
    /\ result.items[1].id = 2
    /\ result.items[2].id = 1
    /\ result.items[1].client = "self"

\* The first position of the listing at which the record carries the
\* submitted name.
FirstNamedPosition ==
    CHOOSE k \in NamedPositions : \A j \in NamedPositions : k <= j

\* C16: when the POST of a key, repository or environment was accepted with a
\* body that does not parse and the listing that follows holds two or more
\* records with the submitted name, the create call returns the first of
\* them in the order of the listing.
C16_FallbackReturnsTheFirstNamed ==
    (FallbackTaken /\ ListingRead /\ Cardinality(NamedPositions) >= 2) =>
        /\ outcome = "ok"
        /\ result.kind = "record"
        /\ result.items = <<resps[2].body.items[FirstNamedPosition] @@ client>>

\* An environment named "a" was created on the fallback path and the listing
\* held two records named "a", id 2 before id 1: the one with id 2 was
\* returned.
C16_Witness ==
    /\ FallbackTaken
    /\ ListingRead
    /\ op = "create_project_environment"
    /\ Cardinality(NamedPositions) >= 2
    /\ resps[2].body.items[1].id = 2
    /\ resps[2].body.items[2].id = 1
    /\ outcome = "ok"
    /\ result.items[1].id = 2

\* C17: create_project_integrations sends its POST to the integrations of the
\* project it was given: /project/<project_id>/integrations, the collection
\* get_project_integrations reads and under which update_project_integration
\* and delete_project_integration address their items.
C17_IntegrationPostedToItsProject ==
    (pc = "done" /\ op = "create_project_integrations") =>
        /\ Len(reqs) = 1
        /\ reqs[1].method = "POST"
        /\ reqs[1].url = api_endpoint \o "/project/"
                             \o ToString(args.project_id) \o "/integrations"

\* C18: when the POST of a key, repository or environment was accepted with a
\* body that does not parse and the listing that follows holds no record with
\* the submitted name, the create call raises (IndexError) and returns no
\* record; it sends nothing after the listing, so what the POST created stays
\* on the server; and a create that returns on the fallback path returns a
\* record with the submitted name.
C18_FallbackWithoutTheNameFails ==
    /\ (FallbackTaken /\ ListingRead /\ NamedPositions = {}) =>
           /\ outcome = "IndexError"
           /\ result.kind = "none"
           /\ result.items = <<>>
           /\ Len(reqs) = 2
           /\ reqs[1].method = "POST"
           /\ reqs[2].method = "GET"
    /\ (FallbackTaken /\ outcome = "ok") =>
           /\ result.kind = "record"
           /\ result.items[1].name = args.name

\* A repository named "a" was created on the fallback path and the listing
\* held one repository, named "b": the call raised IndexError.
C18_Witness ==
    /\ FallbackTaken
    /\ ListingRead
    /\ op = "create_project_repository"
    /\ args.name = "a"
    /\ Len(resps[2].body.items) = 1
    /\ resps[2].body.items[1].name = "b"
    /\ outcome = "IndexError"
    /\ result.kind = "none"

====
